---- MODULE Spec2Model ----
(***************************************************************************)
(* Model of Python-RAG-Service/main.py: the IndexManager (startup build,   *)
(* file monitor thread, rebuild under a lock, publish of self._index), the *)
(* query path IndexManager.query with its post-processing, and the         *)
(* /rag_query and /health handlers running on the server's event loop.     *)
(***************************************************************************)
EXTENDS Integers, Sequences, FiniteSets, TLC

(* ------------------------------ bounds --------------------------------- *)
\* largest modification time a corpus file takes (0 stands for "absent")
MaxMtime == 1
\* number of index builds (startup build included) the model follows
MaxBuilds == 2
\* number of lines of a text the generation service makes of LineSet
MaxLines == 3
\* number of sentences that follow the rows of a text that lists raw rows
MaxSentences == 4
\* number of chunks the node parser cuts one document into
ChunksPerDoc == 2

(* ----------------------------- universe -------------------------------- *)
\* files of DATA_DIR whose suffix is in DATA_EXTS
Files == {"menu.csv"}
\* the two threads that ever call _start_indexing
Threads == {"main", "monitor"}
\* HTTP requests in flight
Reqs == {"r1", "r2"}

VARIABLES
    corpus,         \* DATA_DIR: file -> mtime, 0 when the file is absent
    pc,             \* position of each thread
    lock,           \* self._lock: "free" or the thread holding it
    pending,        \* rebuilds requested by the monitor and not yet started
    bdocs,          \* per thread: docs returned by collect_documents()
    bgen,           \* per thread: identity of the index object being built
    nextGen,        \* identity the next index object gets
    persistDir,     \* PERSIST_DIR: the chroma collection on disk
    index,          \* self._index
    last_snapshot,  \* self._last_snapshot
    clients,        \* which requests the clients send: "few" or "all" of them
    llm,            \* which texts and similarity scores the Ollama models give:
                    \* "few" or "all" of them
    loop,           \* the event loop: "idle" or the request whose coroutine runs
    qpc,            \* position of each request
    qtext,          \* what each request asks
    qRetr,          \* generation read from self._index at line 214
    qNodes,         \* retrieved_nodes of line 215: whether retrieve() has
                    \* returned, and the score of each node it returned
    qGen,           \* generation read from self._index at line 269
    generated,      \* the text the generation service returned for the request
    path,           \* the return statement the request left query() or
                    \* rag_query by
    answer,         \* the text query() returned
    dataDir,        \* DATA_DIR seen file by file: name -> condition of the file
    cpc,            \* position of a call of collect_documents followed alone
    cleft,          \* entries of os.listdir the for loop has yet to visit
    cdocs           \* docs, the list the for loop appends to

vars == <<corpus, pc, lock, pending, bdocs, bgen, nextGen, persistDir, index,
          last_snapshot, clients, llm, loop, qpc, qtext, qRetr, qNodes, qGen,
          generated, path, answer, dataDir, cpc, cleft, cdocs>>

buildVars == <<pc, lock, pending, bdocs, bgen, nextGen, persistDir, index, last_snapshot>>
collectVars == <<dataDir, cpc, cleft, cdocs>>
queryVars == <<clients, llm, loop, qpc, qtext, qRetr, qNodes, qGen, generated, path, answer>>

(* ------------------------------ values --------------------------------- *)
\* self._index = None / self._last_snapshot = None (lines 136-137)
NoIndex == [gen |-> 0, chunks |-> {}]
NoSnapshot == {<<"None", 0>>}
\* PERSIST_DIR after shutil.rmtree (line 165)
Absent == [gen |-> 0, chunks |-> {}, complete |-> FALSE]

\* get_files_snapshot(): the (name, mtime) pairs of the data files present
SnapshotOf(c) == {<<f, c[f]>> : f \in {g \in Files : c[g] > 0}}

\* collect_documents(): one document per data file present (its text is
\* determined by the file's version)
DocsOf(c) == {<<f, c[f]>> : f \in {g \in Files : c[g] > 0}}

\* Settings.node_parser = SentenceSplitter(chunk_size=512, chunk_overlap=64):
\* the chunks from_documents cuts the documents into  (lines 163, 172)
ChunksOf(docs) == {<<d, i>> : d \in docs, i \in 1..ChunksPerDoc}
\* the nodes build g stores for them: every build gives its nodes new ids
NodesOf(docs, g) == {<<c[1], c[2], g>> : c \in ChunksOf(docs)}
\* the chunks a set of stored nodes holds, ids left aside
Contents(nodes) == {<<n[1], n[2]>> : n \in nodes}

BuildPcs == {"rmtree", "collect", "store", "index", "persist", "publish", "snap"}
\* the statements of _build_index that can raise
RaisingPcs == {"collect", "store", "index", "persist", "snap"}
Builders == {t \in Threads : pc[t] \in BuildPcs}
AfterBuild(t) == IF t = "main" THEN "start_monitor" ELSE "sleep"

\* the persisted vector data of generation g is whole on disk
GenIntact(g) == /\ persistDir.gen = g
                /\ persistDir.complete

(* ------------------------------- text ---------------------------------- *)
(* A text is a sequence of lexical tokens, separators included:            *)
(*   "NL" newline, "SP" one blank, "." a period, "-" a dash,               *)
(*   "DATE" a YYYY-MM-DD token, "NUM" a run of digits,                     *)
(*   "MAIN" one of Main|Drink|Other, "CURRY" one of Curry|Biryani,         *)
(*   "WORD" an ordinary word, "OK" a word of two letters,                  *)
(*   "GREAT" / "HERE" / "YES" a word the cleanup functions take for a      *)
(*   conversational opening, "ITEMNAME" / "QUANTITY" / "TITLE" the labels  *)
(*   "Item Name", "Quantity:" and "Title:", "," a comma, "BULLET" the      *)
(*   bullet sign, "THISDISH" / "WHICHMEANS" / "THEITEM" the phrases        *)
(*   counted at lines 290 and 293, "READCSV" and "===" the markers the     *)
(*   extraction writes, and the fixed sentences the functions produce.     *)
(* The regular expressions of the source are evaluated on these tokens.    *)

\* len() of the characters a token stands for
TokLen(k) ==
    CASE k = "DATE" -> 10
      [] k = "NUM" -> 4
      [] k = "WORD" -> 5
      [] k = "OK" -> 2
      [] k = "MAIN" -> 4
      [] k = "CURRY" -> 5
      [] k = "PLAIN" -> 5
      [] k = "GREAT" -> 5
      [] k = "HERE" -> 4
      [] k = "YES" -> 3
      [] k = "ITEMNAME" -> 9
      [] k = "QUANTITY" -> 9
      [] k = "TITLE" -> 6
      [] k = "READCSV" -> 13
      [] k = "===" -> 3
      [] k = "THISDISH" -> 9
      [] k = "WHICHMEANS" -> 11
      [] k = "THEITEM" -> 8
      [] k = "NONE" -> 4
      [] k = "EXC_MESSAGE" -> 20
      [] k = "FOR_ALLERGY" -> 25
      [] k = "HERE_OPTIONS" -> 28
      [] k = "BASED_ON_DATA" -> 18
      [] k = "GREAT_QUESTION" -> 59
      [] k = "PERFECT_TRENDING" -> 44
      [] k = "FEEDBACK" -> 25
      [] k = "S_SUGGEST" -> 87
      [] k = "S_ID_RECOMMEND" -> 81
      [] k = "S_ALWAYS_TELL" -> 69
      [] k = "S_SORRY" -> 46
      [] k = "S_ASK_STAFF" -> 33
      [] k = "S_BASED_TRENDS" -> 78
      [] k = "S_WHICH_CUISINE" -> 44
      [] k = "S_TOP_FAV" -> 59
      [] k = "S_TOP_ASK" -> 69
      [] k = "S_REC_FAV" -> 47
      [] k = "S_HELLO" -> 19
      [] k = "S_HOW_HELP" -> 99
      [] k = "S_NO_INFO" -> 49
      [] k = "S_MIGHT_NOT" -> 105
      [] k = "S_ASK_DIRECT" -> 47
      [] k = "S_ASK_SPECIFIC" -> 48
      [] k = "S_OLLAMA" -> 56
      [] k = "S_RESTART" -> 39
      [] k = "S_DETAILS" -> 8
      [] k = "S_UNEXPECTED" -> 31
      [] k \in {"Hello", "hello", "there"} -> 5
      [] k \in {"Hi", "hi", "ok"} -> 2
      [] k = "TEXT" -> 12
      [] OTHER -> 1

\* text.count(".") inside one token
TokPeriods(k) == IF k = "." THEN 1 ELSE 0

(* the fixed texts of the source, sentence by sentence *)
\* line 412
TplAllergy == <<"S_ID_RECOMMEND", ".", "SP", "S_ALWAYS_TELL">>
\* line 414
TplSuggest == <<"S_SUGGEST">>
\* line 416
TplSorry == <<"S_SORRY", ".", "SP", "S_ASK_STAFF">>
\* lines 360-362
TplTrends == <<"S_BASED_TRENDS", ".", "SP", "S_WHICH_CUISINE">>
\* line 200
GreetingMsg == <<"S_HELLO", ".", "SP", "S_HOW_HELP">>
\* line 204
AskSpecificMsg == <<"S_ASK_SPECIFIC">>
\* line 226
NoDataMsg == <<"S_NO_INFO", ".", "SP", "S_MIGHT_NOT", ".", "SP", "S_ASK_DIRECT">>
\* lines 302-306: the fixed part, then str(ollama_err)
OllamaErrorMsg == <<"S_OLLAMA", ".", "SP", "S_RESTART", ".", "NL", "S_DETAILS", "SP", "EXC_MESSAGE">>
\* line 309: the fixed part, then str(e)
UnexpectedErrorMsg == <<"S_UNEXPECTED", "SP", "EXC_MESSAGE">>

\* len(text)
RECURSIVE TextLen(_)
TextLen(s) == IF s = <<>> THEN 0 ELSE TokLen(Head(s)) + TextLen(Tail(s))
\* text.count(".")
RECURSIVE CountPeriods(_)
CountPeriods(s) == IF s = <<>> THEN 0 ELSE TokPeriods(Head(s)) + CountPeriods(Tail(s))
\* text.count(k) for a token k
CountTok(s, k) == Cardinality({i \in 1..Len(s) : s[i] = k})

IsSpace(k) == k \in {"SP", "NL"}

\* str.strip()
RECURSIVE LStrip(_)
LStrip(s) == IF s # <<>> /\ IsSpace(Head(s)) THEN LStrip(Tail(s)) ELSE s
RECURSIVE RStrip(_)
RStrip(s) == IF s # <<>> /\ IsSpace(s[Len(s)]) THEN RStrip(SubSeq(s, 1, Len(s) - 1)) ELSE s
Strip(s) == RStrip(LStrip(s))

\* s starts with the token sequence p
StartsWith(s, p) == Len(s) >= Len(p) /\ SubSeq(s, 1, Len(p)) = p

\* str.split(sep): the pieces of s between the occurrences of sep
RECURSIVE SplitOn(_, _)
SplitOn(s, sep) ==
    IF \E i \in 1..Len(s) : StartsWith(SubSeq(s, i, Len(s)), sep)
    THEN LET i == CHOOSE j \in 1..Len(s) :
                     /\ StartsWith(SubSeq(s, j, Len(s)), sep)
                     /\ \A m \in 1..(j - 1) : ~StartsWith(SubSeq(s, m, Len(s)), sep)
         IN <<SubSeq(s, 1, i - 1)>> \o SplitOn(SubSeq(s, i + Len(sep), Len(s)), sep)
    ELSE <<s>>

\* sep.join(parts)
RECURSIVE JoinWith(_, _)
JoinWith(parts, sep) ==
    IF parts = <<>> THEN <<>>
    ELSE IF Len(parts) = 1 THEN parts[1]
    ELSE parts[1] \o sep \o JoinWith(Tail(parts), sep)

\* parts[:n]
FirstN(parts, n) == SubSeq(parts, 1, IF Len(parts) < n THEN Len(parts) ELSE n)

\* text.split("\n")
LinesOf(s) == SplitOn(s, <<"NL">>)

\* re.sub(r"\s{2,}", " ", line): every run of two or more blanks becomes one
RECURSIVE SquashSpaces(_)
SquashSpaces(s) ==
    IF s = <<>> THEN <<>>
    ELSE IF IsSpace(Head(s)) /\ Len(s) >= 2 /\ IsSpace(s[2])
         THEN LET rest == LStrip(s) IN <<"SP">> \o SquashSpaces(rest)
         ELSE <<Head(s)>> \o SquashSpaces(Tail(s))

\* re.sub(r"^\d+\.\s*", "", line): a leading "12." and the blanks after it
Unnumber(s) ==
    IF StartsWith(s, <<"NUM", ".">>) THEN LStrip(SubSeq(s, 3, Len(s))) ELSE s

\* re.match(r"^\s*\d{4}-\d{2}-\d{2}\s*$", line)
IsDateLine(l) == Strip(l) = <<"DATE">>
\* re.match(r"^\s*[\d.]+\s*$", line)
IsNumberLine(l) == Strip(l) # <<>> /\ \A i \in 1..Len(Strip(l)) : Strip(l)[i] \in {"NUM", "."}
\* re.match(r"^\s*(Main|Drink|Other)\s*-.*$", line)
IsCategoryLine(l) ==
    /\ StartsWith(LStrip(l), <<"MAIN">>)
    /\ StartsWith(LStrip(Tail(LStrip(l))), <<"-">>)
\* re.match(r"^\s*\d+\s*$", line)
IsIdLine(l) == Strip(l) = <<"NUM">>

\* len(re.findall(raw_csv_pattern, text)) with
\* raw_csv_pattern = \d{4}-\d{2}-\d{2} | Main\s*-\s*(?:Curry|Biryani) | ^\d+\.\d+
\* (no re.MULTILINE: ^ is the start of the whole text)
RECURSIVE CountRaw(_, _)
CountRaw(s, atStart) ==
    IF s = <<>> THEN 0
    ELSE IF Head(s) = "DATE" THEN 1 + CountRaw(Tail(s), FALSE)
    ELSE IF /\ Head(s) = "MAIN"
            /\ StartsWith(LStrip(Tail(s)), <<"-">>)
            /\ StartsWith(LStrip(Tail(LStrip(Tail(s)))), <<"CURRY">>)
         THEN 1 + CountRaw(Tail(LStrip(Tail(LStrip(Tail(s))))), FALSE)
    ELSE IF atStart /\ StartsWith(s, <<"NUM", ".", "NUM">>)
         THEN 1 + CountRaw(SubSeq(s, 4, Len(s)), FALSE)
    ELSE CountRaw(Tail(s), FALSE)

\* text.count(pat) for a token sequence pat: occurrences that do not overlap
RECURSIVE CountSeq(_, _)
CountSeq(s, pat) ==
    IF Len(s) < Len(pat) THEN 0
    ELSE IF StartsWith(s, pat) THEN 1 + CountSeq(SubSeq(s, Len(pat) + 1, Len(s)), pat)
    ELSE CountSeq(Tail(s), pat)

(* ------------------------------ queries -------------------------------- *)
(* A query is its text (raw: the tokens "Hello", "Hi", "hello", "hi",       *)
(* "there", "ok", "!", "?", "SP", and "TEXT" for any longer wording), its  *)
(* form as steps 1 and 2 of query() find it ("greeting": in the greetings  *)
(* set once trimmed, lower-cased and rid of ! and ?; "short": fewer than 3 *)
(* characters and no greeting; "plain": anything else) and the substrings, *)
(* among those query() and the cleanup functions look for, it contains.    *)
\* q.lower()  (line 198)
Lower(s) == [i \in 1..Len(s) |-> CASE s[i] = "Hello" -> "hello"
                                    [] s[i] = "Hi" -> "hi"
                                    [] OTHER -> s[i]]
\* .replace("!", "").replace("?", "")  (line 198)
RECURSIVE RemoveMarks(_)
RemoveMarks(s) ==
    IF s = <<>> THEN <<>>
    ELSE IF Head(s) \in {"!", "?"} THEN RemoveMarks(Tail(s))
    ELSE <<Head(s)>> \o RemoveMarks(Tail(s))
\* the members of greetings (line 197) that the query tokens can spell
Greetings == {<<"hi">>, <<"hello">>, <<"hello", "SP", "there">>, <<"hi", "SP", "there">>}
\* q_lower_clean in greetings, q being q.strip()  (lines 194-199)
IsGreeting(raw) == RemoveMarks(Lower(Strip(raw))) \in Greetings
\* steps 1 and 2 of query()  (lines 194-204)
FormOf(raw) ==
    IF IsGreeting(raw) THEN "greeting"
    ELSE IF TextLen(Strip(raw)) < 3 THEN "short"
    ELSE "plain"
QWords == {"menu", "item", "popular", "top", "best", "recommend", "suggest", "allerg", "spic"}
\* any(keyword in q_lower for keyword in order_keywords)  (lines 207-211)
IsOrderRelated(q) == q.words \cap {"menu", "item", "popular"} # {}
\* "allerg" in query.lower() or "spic" in query.lower()  (lines 411, 428)
AsksAllergy(q) == q.words \cap {"allerg", "spic"} # {}

(* ------------------- _extract_meaningful_response ---------------------- *)
\* the tests of lines 393-403 that make the loop skip a line
SkippedLine(l) ==
    \/ IsDateLine(l)
    \/ IsNumberLine(l)
    \/ IsCategoryLine(l)
    \/ IsIdLine(l)
    \/ ~(Strip(l) # <<>> /\ TextLen(Strip(l)) > 3)

\* lines 391-407: the kept lines, each without numbering and double blanks
RECURSIVE CleanedLines(_)
CleanedLines(ls) ==
    IF ls = <<>> THEN <<>>
    ELSE IF SkippedLine(Head(ls)) THEN CleanedLines(Tail(ls))
    ELSE <<Strip(SquashSpaces(Unnumber(Head(ls))))>> \o CleanedLines(Tail(ls))

\* text.lower().startswith(w) for w in i'd, great, perfect, sure, here, based
ExtractOpeners == {"GREAT", "HERE", "HERE_OPTIONS", "BASED_ON_DATA", "S_BASED_TRENDS",
                   "GREAT_QUESTION", "PERFECT_TRENDING", "S_ID_RECOMMEND"}
HasExtractOpener(t) == t # <<>> /\ Head(t) \in ExtractOpeners

\* lines 422-424
TruncateRaw(t) ==
    IF TextLen(t) > 300 \/ CountPeriods(t) > 5
    THEN JoinWith(FirstN(SplitOn(t, <<".", "SP">>), 2), <<".", "SP">>) \o <<".">>
    ELSE t

\* lines 427-431
WrapFriendly(t, q) ==
    IF HasExtractOpener(t) THEN t
    ELSE IF AsksAllergy(q) THEN <<"FOR_ALLERGY", "SP">> \o t
    ELSE IF "recommend" \in q.words THEN <<"HERE_OPTIONS", "SP">> \o t
    ELSE t

\* def _extract_meaningful_response(self, text, query)  (lines 383-433)
ExtractMeaningful(text, q) ==
    LET cleaned == CleanedLines(LinesOf(text)) IN
    IF cleaned = <<>>
    THEN IF AsksAllergy(q) THEN TplAllergy
         ELSE IF q.words \cap {"suggest", "recommend"} # {} THEN TplSuggest
         ELSE TplSorry
    ELSE Strip(WrapFriendly(TruncateRaw(JoinWith(cleaned, <<"SP">>)), q))

(* -------------------- _clean_and_format_response ----------------------- *)
\* line 316: "top" in query and ("item" or "10" or "five" or "best" or "popular")
AsksTopItems(q) == "top" \in q.words /\ q.words \cap {"item", "best", "popular"} # {}
\* line 347: any of recommend, suggest, best, popular, trending in the query
AsksRecommendation(q) == q.words \cap {"recommend", "suggest", "best", "popular"} # {}

\* tokens holding a digit / made of word characters / starting with a capital
HasDigit(k) == k \in {"NUM", "DATE"}
IsWordTok(k) == k \in {"NUM", "WORD", "OK", "MAIN", "CURRY", "PLAIN", "GREAT", "HERE", "YES",
                       "NONE"}
IsCapitalized(k) == k \in {"MAIN", "PLAIN", "GREAT", "HERE", "YES"}

\* index of the first "," of s, 0 when there is none
FirstComma(s) ==
    IF \E i \in 1..Len(s) : s[i] = ","
    THEN CHOOSE i \in 1..Len(s) : s[i] = "," /\ \A j \in 1..(i - 1) : s[j] # ","
    ELSE 0

\* re.search(r"(?:Item Name,\s*)?Quantity:\s*([^,]+),\s*(\d+)", line): the item
\* name (group 1, stripped) of the leftmost match, <<"NOMATCH">> without a match
RECURSIVE QuantityItem(_)
QuantityItem(l) ==
    IF l = <<>> THEN <<"NOMATCH">>
    ELSE IF Head(l) = "QUANTITY"
            /\ FirstComma(Tail(l)) > 1
            /\ LET after == LStrip(SubSeq(Tail(l), FirstComma(Tail(l)) + 1, Len(Tail(l))))
               IN after # <<>> /\ HasDigit(Head(after))
         THEN Strip(SubSeq(Tail(l), 1, FirstComma(Tail(l)) - 1))
         ELSE QuantityItem(Tail(l))

\* lines 329-332: the first comma-separated part of a line whose last part
\* is a number, <<"NOMATCH">> otherwise
CommaItem(l) ==
    LET parts == SplitOn(l, <<",">>) IN
    IF /\ Len(parts) >= 2
       /\ \E i \in 1..Len(l) : HasDigit(l[i])
       /\ Strip(parts[Len(parts)]) = <<"NUM">>
    THEN Strip(parts[1])
    ELSE <<"NOMATCH">>

\* lines 321-332: the item names found, line by line
RECURSIVE ItemsOf(_)
ItemsOf(ls) ==
    IF ls = <<>> THEN <<>>
    ELSE LET l == Head(ls) IN
         IF QuantityItem(l) # <<"NOMATCH">> THEN <<QuantityItem(l)>> \o ItemsOf(Tail(ls))
         ELSE IF CommaItem(l) # <<"NOMATCH">> THEN <<CommaItem(l)>> \o ItemsOf(Tail(ls))
         ELSE ItemsOf(Tail(ls))

\* line 339: re.sub(r"^(Plain|Prwan|Plains)\s*", "", name).strip()
ItemName(n) == Strip(IF n # <<>> /\ Head(n) = "PLAIN" THEN Tail(n) ELSE n)

\* lines 337-340: one bullet line per item
RECURSIVE BulletLines(_)
BulletLines(items) ==
    IF items = <<>> THEN <<>>
    ELSE <<"BULLET", "SP">> \o ItemName(Head(items)) \o <<"NL">> \o BulletLines(Tail(items))

\* lines 336-344
TopItemsResponse(items) ==
    Strip(<<"GREAT_QUESTION", "NL", "NL">> \o BulletLines(FirstN(items, 10))
          \o <<"NL", "S_TOP_FAV", ".", "SP", "S_TOP_ASK">>)

\* line 352: re.findall of a capitalized word, a blank and a dish word
RECURSIVE DishesOf(_)
DishesOf(s) ==
    IF Len(s) < 3 THEN <<>>
    ELSE IF IsCapitalized(s[1]) /\ s[2] = "SP" /\ s[3] = "CURRY"
         THEN <<SubSeq(s, 1, 3)>> \o DishesOf(SubSeq(s, 4, Len(s)))
         ELSE DishesOf(Tail(s))

\* line 355: list(dict.fromkeys(dishes)): first occurrences, in order
RECURSIVE Unique(_)
Unique(ds) ==
    IF ds = <<>> THEN <<>>
    ELSE LET rest == Unique(SubSeq(ds, 1, Len(ds) - 1)) IN
         IF \E i \in 1..(Len(ds) - 1) : ds[i] = ds[Len(ds)] THEN rest
         ELSE rest \o <<ds[Len(ds)]>>

\* lines 356-357
RECURSIVE FeedbackLines(_)
FeedbackLines(ds) ==
    IF ds = <<>> THEN <<>>
    ELSE <<"BULLET", "SP">> \o Head(ds) \o <<"SP", "FEEDBACK", "NL">> \o FeedbackLines(Tail(ds))

\* lines 349-363
RecommendationResponse(text) ==
    LET dishes == DishesOf(text) IN
    IF dishes # <<>>
    THEN Strip(<<"PERFECT_TRENDING", "NL", "NL">> \o FeedbackLines(FirstN(Unique(dishes), 5))
               \o <<"NL", "S_REC_FAV", ".", "SP", "S_WHICH_CUISINE">>)
    ELSE TplTrends

\* line 366: re.sub(r"Item Name,\s*Quantity:\s*", "", text)
RECURSIVE RemoveItemLabel(_)
RemoveItemLabel(s) ==
    IF s = <<>> THEN <<>>
    ELSE IF /\ StartsWith(s, <<"ITEMNAME", ",">>)
            /\ StartsWith(LStrip(SubSeq(s, 3, Len(s))), <<"QUANTITY">>)
         THEN RemoveItemLabel(LStrip(Tail(LStrip(SubSeq(s, 3, Len(s))))))
         ELSE <<Head(s)>> \o RemoveItemLabel(Tail(s))

\* line 367: re.sub(r"Title:\s*\w+\s*", "", text); of a date \w+ takes the year
RECURSIVE RemoveTitle(_)
RemoveTitle(s) ==
    IF s = <<>> THEN <<>>
    ELSE IF Head(s) = "TITLE" /\ LStrip(Tail(s)) # <<>> /\ IsWordTok(Head(LStrip(Tail(s))))
         THEN RemoveTitle(LStrip(Tail(LStrip(Tail(s)))))
    ELSE IF Head(s) = "TITLE" /\ LStrip(Tail(s)) # <<>> /\ Head(LStrip(Tail(s))) = "DATE"
         THEN <<"-", "NUM", "-", "NUM">> \o RemoveTitle(Tail(LStrip(Tail(s))))
    ELSE <<Head(s)>> \o RemoveTitle(Tail(s))

\* line 368: re.sub(r"\[Read as CSV\]", "", text)
RemoveReadCsv(s) == SelectSeq(s, LAMBDA k : k # "READCSV")

\* line 369: re.sub(r"===.*?===", "", text); . does not match a newline
RECURSIVE RemoveSections(_)
RemoveSections(s) ==
    IF s = <<>> THEN <<>>
    ELSE IF Head(s) = "===" /\ \E i \in 2..Len(s) :
                                  s[i] = "===" /\ \A j \in 2..(i - 1) : s[j] \notin {"===", "NL"}
         THEN LET i == CHOOSE m \in 2..Len(s) :
                          s[m] = "===" /\ \A j \in 2..(m - 1) : s[j] \notin {"===", "NL"}
              IN RemoveSections(SubSeq(s, i + 1, Len(s)))
         ELSE <<Head(s)>> \o RemoveSections(Tail(s))

\* line 370: re.sub(r"\n\n+", "\n", text)
RECURSIVE CollapseNewlines(_)
CollapseNewlines(s) ==
    IF s = <<>> THEN <<>>
    ELSE IF Head(s) = "NL" /\ Len(s) >= 2 /\ s[2] = "NL" THEN CollapseNewlines(Tail(s))
    ELSE <<Head(s)>> \o CollapseNewlines(Tail(s))

\* lines 373-375
FirstThreeSentences(t) ==
    IF Len(SplitOn(t, <<".", "SP">>)) > 3
    THEN JoinWith(FirstN(SplitOn(t, <<".", "SP">>), 3), <<".", "SP">>) \o <<".">>
    ELSE t

\* text.lower().startswith((great, perfect, sure, absolutely, yes, hi, hello))
CleanOpeners == {"GREAT", "YES", "GREAT_QUESTION", "PERFECT_TRENDING", "S_HELLO"}
\* lines 378-379
PrefixFriendly(t) ==
    IF t # <<>> /\ Head(t) \in CleanOpeners THEN t ELSE <<"BASED_ON_DATA", "SP">> \o t

\* def _clean_and_format_response(self, text, query)  (lines 311-381)
CleanAndFormat(text, q) ==
    IF AsksTopItems(q) /\ ItemsOf(LinesOf(text)) # <<>>
    THEN TopItemsResponse(ItemsOf(LinesOf(text)))
    ELSE IF AsksRecommendation(q)
    THEN RecommendationResponse(text)
    ELSE Strip(PrefixFriendly(FirstThreeSentences(CollapseNewlines(RemoveSections(
             RemoveReadCsv(RemoveTitle(RemoveItemLabel(text))))))))

(* ------------------------ query(): post-processing --------------------- *)
\* line 290: the verbose markers ("which means" and "typically consists" are
\* counted alike)
LooksVerbose(t) == CountTok(t, "THISDISH") > 3 \/ CountTok(t, "WHICHMEANS") > 2
\* line 293
LooksLikeDump(t) == CountTok(t, "THEITEM") > 2 \/ CountSeq(t, <<"SP", "BULLET", "SP">>) > 5
\* lines 295-297
FirstTwoSentences(t) ==
    IF Len(SplitOn(t, <<".", "SP">>)) > 2
    THEN JoinWith(FirstN(SplitOn(t, <<".", "SP">>), 2), <<".", "SP">>) \o <<".">>
    ELSE t

\* line 277: getattr(resp, "response", None) or str(resp); str() of a
\* response without text is the word None
ResponseText(c) == IF c = <<>> THEN <<"NONE">> ELSE c

\* lines 281-298 end with a call of self._compress_verbose_response, which
\* the class does not define (its body follows the return of line 433):
\* the call raises AttributeError
PostProcessRaises(t) ==
    /\ ~(CountRaw(t, TRUE) > 2)
    /\ ~(CountTok(t, "ITEMNAME") > 0 \/ CountTok(t, "TITLE") > 0)
    /\ LooksVerbose(t)

\* lines 279-299
PostProcess(t, q) ==
    IF CountRaw(t, TRUE) > 2 THEN ExtractMeaningful(t, q)
    ELSE IF CountTok(t, "ITEMNAME") > 0 \/ CountTok(t, "TITLE") > 0 THEN CleanAndFormat(t, q)
    ELSE IF LooksVerbose(t) THEN UnexpectedErrorMsg
    ELSE IF LooksLikeDump(t) THEN FirstTwoSentences(t)
    ELSE t

(* ------------------------------ inputs --------------------------------- *)
(* A request is its route, its content-type header ("json": contains       *)
(* application/json; "form": urlencoded or multipart; "other"), its body   *)
(* ("fields": a JSON object or a form with a query or message field;       *)
(* "nofield": one without; "array": JSON that is no object; "malformed":   *)
(* no JSON at all) and, for a body with the field, the query it carries.   *)
Request(ctype, body, raw, ws) ==
    [route |-> "rag_query", ctype |-> ctype, body |-> body, raw |-> raw, words |-> ws]
\* GET /health
HealthCheck == [route |-> "health", ctype |-> "none", body |-> "none", raw |-> <<>>, words |-> {}]
Greeting == Request("json", "fields", <<"Hello", "!">>, {})
TooShort == Request("json", "fields", <<"ok">>, {})
Plain(ws) == Request("json", "fields", <<"TEXT">>, ws)

\* query_text after lines 532-547: "text" when the field is read, "none"
\* when query_text is None, "raise" when request.json() or body.get raises
\* outside the inner try of lines 543-547
QueryText(req) ==
    IF req.ctype = "json"
    THEN CASE req.body = "fields" -> "text"
           [] req.body = "nofield" -> "none"
           [] OTHER -> "raise"
    ELSE IF req.body = "fields" THEN "text" ELSE "none"

\* the texts of queries that say hello, or nearly, or hardly anything
RawQueries == {<<>>, <<"Hello", "!">>, <<"SP", "hi">>, <<"Hi", "SP", "there", "?">>,
               <<"Hello", "SP", "!">>, <<"ok">>, <<"SP", "SP">>, <<"!">>}
\* the content types and bodies a client may send
TransportRequests ==
    {Request(ct, "fields", <<"TEXT">>, {"menu"}) : ct \in {"json", "form", "other"}}
        \cup {Request(ct, "nofield", <<>>, {}) : ct \in {"json", "form", "other"}}
        \cup {Request(ct, b, <<>>, {}) : ct \in {"json", "other"}, b \in {"array", "malformed"}}

\* the substrings a plain query is made of
QueryWordSets == {{}, {"menu"}, {"item", "top"}, {"popular"}, {"best", "top"}, {"recommend"},
                  {"suggest"}, {"allerg"}, {"spic", "recommend"}}
AllRequests == {HealthCheck, Greeting, TooShort} \cup {Plain(ws) : ws \in QueryWordSets}
                   \cup {Request("json", "fields", raw, {}) : raw \in RawQueries}
                   \cup TransportRequests
FewRequests == {HealthCheck, Greeting, Plain({"menu"}), Plain({})}
\* the requests a client may send
Requests == IF clients = "all" THEN AllRequests ELSE FewRequests

\* the lines a generated text is made of
LineSet == {
    <<>>,
    <<"OK">>,
    <<"DATE">>,
    <<"NUM">>,
    <<"NUM", ".", "NUM">>,
    <<"MAIN", "SP", "-", "SP", "CURRY">>,
    <<"WORD", "SP", "WORD", ".">>,
    <<"GREAT", "SP", "WORD", ".", "SP", "WORD", ".">>,
    <<"WORD", "SP", "DATE", ".", "SP", "WORD">>,
    <<"NUM", ".", "SP", "NUM">>,
    <<"ITEMNAME", ",", "SP", "QUANTITY", "SP", "PLAIN", "SP", "CURRY", ",", "SP", "NUM">>,
    <<"TITLE", "SP", "WORD", "SP", "WORD", ".", "SP", "WORD", ".", "SP", "WORD", ".", "SP", "OK">>,
    <<"THISDISH", "SP", "WHICHMEANS", "SP", "THISDISH", ".", "SP", "WORD">>,
    <<"THEITEM", "SP", "WORD", ".", "SP", "WORD", "SP", "BULLET", "SP", "WORD", "SP", "BULLET", "SP", "OK">> }

\* the texts of at most n lines
RECURSIVE TextsOf(_)
TextsOf(n) ==
    IF n = 1 THEN LineSet
    ELSE TextsOf(n - 1) \cup {t \o <<"NL">> \o l : t \in TextsOf(n - 1), l \in LineSet}

\* n + 1 words with the separator " • " between them
RECURSIVE Bulleted(_)
Bulleted(n) ==
    IF n = 0 THEN <<"WORD">> ELSE Bulleted(n - 1) \o <<"SP", "BULLET", "SP", "WORD">>
\* n short sentences
RECURSIVE ShortSentences(_)
ShortSentences(n) ==
    IF n = 0 THEN <<>> ELSE <<"SP", "WORD", ".">> \o ShortSentences(n - 1)
\* texts that list raw rows: three date lines, then a line of six bullet
\* separators that ends a sentence, and up to MaxSentences - 1 more sentences
DenseCandidates ==
    {<<"DATE", "NL", "DATE", "NL", "DATE", "NL">> \o Bulleted(6) \o <<".">> \o ShortSentences(n - 1) :
        n \in 1..MaxSentences}

AllCandidates == TextsOf(MaxLines) \cup DenseCandidates
FewCandidates == {<<"GREAT", "SP", "WORD", ".">>, <<"WORD", "SP", "WORD", ".", "NL", "NUM">>}
\* the texts the generation service may return
Candidates == IF llm = "all" THEN AllCandidates ELSE FewCandidates

(* ------------------------ collect_documents ---------------------------- *)
(* The files of DATA_DIR taken one by one. A file is "absent", "good" (it   *)
(* opens and parses as what its suffix says), "unparsable" (it opens, its  *)
(* content is not what its suffix says) or "unreadable" (open() fails: no  *)
(* permission, or removed after os.listdir listed it).                     *)
DirFiles == {"orders.csv", "sales.xlsx", "faq.jsonl", "notes.txt"}
Conditions == {"absent", "good", "unparsable", "unreadable"}
\* p.suffix.lower()
Suffix(f) ==
    CASE f = "orders.csv" -> ".csv"
      [] f = "sales.xlsx" -> ".xlsx"
      [] f = "faq.jsonl" -> ".jsonl"
      [] OTHER -> ".txt"
\* DATA_EXTS  (line 29)
DATA_EXTS == {".csv", ".xls", ".xlsx", ".jsonl"}

\* extract_text_from_jsonl(path): open() is outside any try; a line that is
\* no JSON is kept as it is  (lines 80-102)
extract_text_from_jsonl(cond) ==
    CASE cond = "unreadable" -> "raise"
      [] cond = "unparsable" -> "raw lines"
      [] OTHER -> "json lines"

\* extract_text_from_file(p): "raise", "" or the kind of text returned
\* (lines 34-77): a workbook that opens gives its sheets; a .csv that
\* read_csv parses gives the table; whatever did not parse is read as plain
\* text, and "" is returned when that fails too
extract_text_from_file(f, cond) ==
    IF Suffix(f) = ".jsonl" THEN extract_text_from_jsonl(cond)
    ELSE IF Suffix(f) \in {".xls", ".xlsx"} /\ cond = "good" THEN "sheets"
    ELSE IF Suffix(f) = ".csv" /\ cond = "good" THEN "table"
    ELSE IF cond = "unreadable" THEN ""
    ELSE "plain text"

\* docs = []; for fn in os.listdir(DATA_DIR)  (lines 116-117)
CollectStart ==
    /\ cpc = "idle"
    /\ cleft' = {f \in DirFiles : dataDir[f] # "absent"}
    /\ cdocs' = {}
    /\ cpc' = "loop"
    /\ UNCHANGED <<corpus, buildVars, queryVars, dataDir>>

\* one turn of the for loop  (lines 117-123)
CollectFile ==
    /\ cpc = "loop"
    /\ \E f \in cleft :
          /\ cleft' = cleft \ {f}
          /\ IF Suffix(f) \notin DATA_EXTS
             THEN UNCHANGED <<cpc, cdocs>>
             ELSE LET text == extract_text_from_file(f, dataDir[f]) IN
                  IF text = "raise"
                  THEN /\ cpc' = "raised"
                       /\ UNCHANGED cdocs
                  ELSE /\ cdocs' = IF text # "" THEN cdocs \cup {<<f, text>>} ELSE cdocs
                       /\ UNCHANGED cpc
    /\ UNCHANGED <<corpus, buildVars, queryVars, dataDir>>

\* docs.extend(build_summary_documents()); return docs  (lines 124-125, 111)
CollectReturn ==
    /\ cpc = "loop"
    /\ cleft = {}
    /\ cpc' = "returned"
    /\ UNCHANGED <<corpus, buildVars, queryVars, dataDir, cleft, cdocs>>

\* no call of collect_documents is followed file by file
NoCollect ==
    /\ dataDir = [f \in DirFiles |-> "absent"]
    /\ cpc = "off"
    /\ cleft = {}
    /\ cdocs = {}

(* ------------------------------- Init ---------------------------------- *)
\* retrieve() has not returned
NotRetrieved == [called |-> FALSE, nodes |-> <<>>]
\* no request: the fields of a request not yet made
NoText == <<"NOTEXT">>
InitRequests ==
    /\ loop = "idle"
    /\ qpc = [r \in Reqs |-> "idle"]
    /\ qtext = [r \in Reqs |-> HealthCheck]
    /\ qRetr = [r \in Reqs |-> 0]
    /\ qNodes = [r \in Reqs |-> NotRetrieved]
    /\ qGen = [r \in Reqs |-> 0]
    /\ generated = [r \in Reqs |-> NoText]
    /\ path = [r \in Reqs |-> "none"]
    /\ answer = [r \in Reqs |-> NoText]

\* the process starts: module import reaches index_manager = IndexManager()
\* (line 511), __init__ has set the fields (lines 135-137)
Init ==
    /\ corpus \in [Files -> 0..MaxMtime]
    /\ pc = [t \in Threads |-> IF t = "main" THEN "lock" ELSE "unstarted"]
    /\ lock = "free"
    /\ pending = 0
    /\ bdocs = [t \in Threads |-> {}]
    /\ bgen = [t \in Threads |-> 0]
    /\ nextGen = 1
    /\ persistDir = Absent
    /\ index = NoIndex
    /\ last_snapshot = NoSnapshot
    /\ clients = "few"
    /\ llm = "few"
    /\ InitRequests
    /\ NoCollect

(* --------------------------- environment ------------------------------- *)
\* a data file is created, rewritten (new mtime) or deleted
CorpusChange ==
    /\ \E f \in Files, m \in 0..MaxMtime :
          /\ m # corpus[f]
          /\ corpus' = [corpus EXCEPT ![f] = m]
    /\ UNCHANGED <<buildVars, queryVars, collectVars>>

(* ------------------------- _start_indexing ----------------------------- *)
\* with self._lock:  (line 142)
AcquireLock(t) ==
    /\ pc[t] = "lock"
    /\ lock = "free"
    /\ lock' = t
    /\ pc' = [pc EXCEPT ![t] = "rmtree"]
    /\ pending' = IF t = "monitor" THEN pending - 1 ELSE pending
    /\ UNCHANGED <<corpus, bdocs, bgen, nextGen, persistDir, index, last_snapshot, queryVars, collectVars>>

\* a removal that leaves the directory as it is
RmtreeKeeps(t) ==
    /\ pc[t] = "rmtree"
    /\ pc' = [pc EXCEPT ![t] = "collect"]
    /\ UNCHANGED <<corpus, lock, pending, bdocs, bgen, nextGen, persistDir, index, last_snapshot, queryVars, collectVars>>

\* shutil.rmtree(PERSIST_DIR, ignore_errors=True)  (line 165)
Rmtree(t) ==
    /\ pc[t] = "rmtree"
    /\ persistDir' = Absent
    /\ pc' = [pc EXCEPT ![t] = "collect"]
    /\ UNCHANGED <<corpus, lock, pending, bdocs, bgen, nextGen, index, last_snapshot, queryVars, collectVars>>

\* docs = collect_documents()  (line 166)
Collect(t) ==
    /\ pc[t] = "collect"
    /\ bdocs' = [bdocs EXCEPT ![t] = DocsOf(corpus)]
    /\ pc' = [pc EXCEPT ![t] = "store"]
    /\ UNCHANGED <<corpus, lock, pending, bgen, nextGen, persistDir, index, last_snapshot, queryVars, collectVars>>

\* PersistentClient(path=PERSIST_DIR/"chroma"), get_or_create_collection,
\* ChromaVectorStore, StorageContext  (lines 167-170): the collection is
\* created if the directory has none, and taken as it is otherwise
OpenStore(t) ==
    /\ pc[t] = "store"
    /\ bgen' = [bgen EXCEPT ![t] = nextGen]
    /\ nextGen' = nextGen + 1
    /\ persistDir' = [gen |-> nextGen, chunks |-> persistDir.chunks, complete |-> FALSE]
    /\ pc' = [pc EXCEPT ![t] = "index"]
    /\ UNCHANGED <<corpus, lock, pending, bdocs, index, last_snapshot, queryVars, collectVars>>

\* VectorStoreIndex.from_documents(docs, ...): each chunk is embedded and
\* written to the collection, one after the other  (line 172)
AddChunk(t) ==
    /\ pc[t] = "index"
    /\ \E n \in NodesOf(bdocs[t], bgen[t]) \ persistDir.chunks :
          persistDir' = [persistDir EXCEPT !.chunks = @ \cup {n}]
    /\ UNCHANGED <<corpus, pc, lock, pending, bdocs, bgen, nextGen, index, last_snapshot, queryVars, collectVars>>

\* from_documents returns once every chunk is written
IndexDone(t) ==
    /\ pc[t] = "index"
    /\ NodesOf(bdocs[t], bgen[t]) \subseteq persistDir.chunks
    /\ pc' = [pc EXCEPT ![t] = "persist"]
    /\ UNCHANGED <<corpus, lock, pending, bdocs, bgen, nextGen, persistDir, index, last_snapshot, queryVars, collectVars>>

\* index.storage_context.persist(persist_dir=PERSIST_DIR)  (line 173)
Persist(t) ==
    /\ pc[t] = "persist"
    /\ persistDir' = [persistDir EXCEPT !.complete = TRUE]
    /\ pc' = [pc EXCEPT ![t] = "publish"]
    /\ UNCHANGED <<corpus, lock, pending, bdocs, bgen, nextGen, index, last_snapshot, queryVars, collectVars>>

\* self._index = index  (line 174): the index object over the collection
Publish(t) ==
    /\ pc[t] = "publish"
    /\ index' = [gen |-> bgen[t], chunks |-> persistDir.chunks]
    /\ pc' = [pc EXCEPT ![t] = "snap"]
    /\ UNCHANGED <<corpus, lock, pending, bdocs, bgen, nextGen, persistDir, last_snapshot, queryVars, collectVars>>

\* self._last_snapshot = get_files_snapshot(), then the with block ends
\* (lines 175, 142)
RecordSnapshot(t) ==
    /\ pc[t] = "snap"
    /\ last_snapshot' = SnapshotOf(corpus)
    /\ lock' = "free"
    /\ pc' = [pc EXCEPT ![t] = AfterBuild(t)]
    /\ UNCHANGED <<corpus, pending, bdocs, bgen, nextGen, persistDir, index, queryVars, collectVars>>

\* a statement of _build_index raises (os.listdir, open(), chromadb, the
\* embedding service, persist, stat): the with block releases the lock and
\* the exception leaves _start_indexing; nothing catches it in __init__
\* (line 138) nor in _monitor_files (line 187), so the thread ends
BuildFail(t) ==
    /\ pc[t] \in RaisingPcs
    /\ lock' = "free"
    /\ pc' = [pc EXCEPT ![t] = "build_failed"]
    /\ UNCHANGED <<corpus, pending, bdocs, bgen, nextGen, persistDir, index, last_snapshot, queryVars, collectVars>>

(* ------------------------ __init__ / monitor --------------------------- *)
\* self._start_monitor(): the daemon thread starts, __init__ returns and the
\* module goes on to serve  (lines 139, 177-179, 511)
StartMonitor ==
    /\ pc["main"] = "start_monitor"
    /\ pc' = [pc EXCEPT !["main"] = "serving", !["monitor"] = "sleep"]
    /\ UNCHANGED <<corpus, lock, pending, bdocs, bgen, nextGen, persistDir, index, last_snapshot, queryVars, collectVars>>

\* one rebuild request that never waits for the build it asked for
TickSpawning ==
    /\ pc["monitor"] = "sleep"
    /\ nextGen <= MaxBuilds
    /\ pending < MaxBuilds
    /\ SnapshotOf(corpus) # last_snapshot
    /\ pending' = pending + 1
    /\ UNCHANGED <<corpus, pc, lock, bdocs, bgen, nextGen, persistDir, index, last_snapshot, queryVars, collectVars>>

\* a loop that calls _start_indexing at every turn, changed files or not
TickAlways ==
    /\ pc["monitor"] = "sleep"
    /\ nextGen <= MaxBuilds
    /\ pc' = [pc EXCEPT !["monitor"] = "lock"]
    /\ pending' = pending + 1
    /\ UNCHANGED <<corpus, lock, bdocs, bgen, nextGen, persistDir, index, last_snapshot, queryVars, collectVars>>

\* one turn of the while loop of _monitor_files: sleep, snapshot, compare,
\* and on a difference call _start_indexing  (lines 182-187)
Tick ==
    /\ pc["monitor"] = "sleep"
    /\ nextGen <= MaxBuilds
    /\ IF SnapshotOf(corpus) # last_snapshot
       THEN /\ pc' = [pc EXCEPT !["monitor"] = "lock"]
            /\ pending' = pending + 1
       ELSE UNCHANGED <<pc, pending>>
    /\ UNCHANGED <<corpus, lock, bdocs, bgen, nextGen, persistDir, index, last_snapshot, queryVars, collectVars>>

\* get_files_snapshot() raises in the loop (DATA_DIR unreadable, a file
\* removed between iterdir() and stat()): nothing catches it  (lines 130, 184)
TickFail ==
    /\ pc["monitor"] = "sleep"
    /\ pc' = [pc EXCEPT !["monitor"] = "tick_failed"]
    /\ UNCHANGED <<corpus, lock, pending, bdocs, bgen, nextGen, persistDir, index, last_snapshot, queryVars, collectVars>>

(* ----------------------- /rag_query and /health ------------------------ *)
\* a client sends a request
Arrive(r) ==
    /\ qpc[r] = "idle"
    /\ \E x \in Requests : qtext' = [qtext EXCEPT ![r] = x]
    /\ qpc' = [qpc EXCEPT ![r] = "arrived"]
    /\ UNCHANGED <<corpus, buildVars, collectVars, clients, llm, loop, qRetr, qNodes, qGen, generated, path, answer>>

\* the event loop takes the request up, which it can once the module is
\* imported and no coroutine is running on it. health() is a plain function
\* and answers at once; rag_query is a coroutine and calls
\* index_manager.query without awaiting anything: it keeps the loop until
\* it returns. Before that call it reads the query from the body: an
\* exception there is answered by line 557 with status 500, a missing or
\* empty query by line 550 with status 400  (lines 524-552, 556-562)
Dispatch(r) ==
    /\ qpc[r] = "arrived"
    /\ pc["main"] = "serving"
    /\ loop = "idle"
    /\ IF qtext[r] = HealthCheck
       THEN /\ qpc' = [qpc EXCEPT ![r] = "idle"]
            /\ UNCHANGED <<loop, path>>
       ELSE /\ loop' = r
            /\ IF QueryText(qtext[r]) = "raise"
               THEN /\ path' = [path EXCEPT ![r] = "http500"]
                    /\ qpc' = [qpc EXCEPT ![r] = "return"]
               ELSE IF QueryText(qtext[r]) = "none" \/ qtext[r].raw = <<>>
               THEN /\ path' = [path EXCEPT ![r] = "http400"]
                    /\ qpc' = [qpc EXCEPT ![r] = "return"]
               ELSE /\ qpc' = [qpc EXCEPT ![r] = "classify"]
                    /\ UNCHANGED path
    /\ UNCHANGED <<corpus, buildVars, collectVars, clients, llm, qtext, qRetr, qNodes, qGen, generated, answer>>

\* the length test of step 2 made before the greeting test of step 1
ClassifyLengthFirst(r) ==
    /\ qpc[r] = "classify"
    /\ IF TextLen(Strip(qtext[r].raw)) < 3
       THEN /\ answer' = [answer EXCEPT ![r] = AskSpecificMsg]
            /\ path' = [path EXCEPT ![r] = "short"]
            /\ qpc' = [qpc EXCEPT ![r] = "return"]
       ELSE IF IsGreeting(qtext[r].raw)
       THEN /\ answer' = [answer EXCEPT ![r] = GreetingMsg]
            /\ path' = [path EXCEPT ![r] = "greeting"]
            /\ qpc' = [qpc EXCEPT ![r] = "return"]
       ELSE /\ qpc' = [qpc EXCEPT ![r] = "retrieve"]
            /\ UNCHANGED <<answer, path>>
    /\ UNCHANGED <<corpus, buildVars, collectVars, clients, llm, loop, qtext, qRetr, qNodes, qGen, generated>>

\* steps 2 and 3 alone: the greetings set is never looked at
ClassifyNoGreeting(r) ==
    /\ qpc[r] = "classify"
    /\ IF TextLen(Strip(qtext[r].raw)) < 3
       THEN /\ answer' = [answer EXCEPT ![r] = AskSpecificMsg]
            /\ path' = [path EXCEPT ![r] = "short"]
            /\ qpc' = [qpc EXCEPT ![r] = "return"]
       ELSE /\ qpc' = [qpc EXCEPT ![r] = "retrieve"]
            /\ UNCHANGED <<answer, path>>
    /\ UNCHANGED <<corpus, buildVars, collectVars, clients, llm, loop, qtext, qRetr, qNodes, qGen, generated>>

\* query(), steps 1 to 3: greeting, too short, keyword flag  (lines 194-211)
Classify(r) ==
    /\ qpc[r] = "classify"
    /\ IF FormOf(qtext[r].raw) = "greeting"
       THEN /\ answer' = [answer EXCEPT ![r] = GreetingMsg]
            /\ path' = [path EXCEPT ![r] = "greeting"]
            /\ qpc' = [qpc EXCEPT ![r] = "return"]
       ELSE IF FormOf(qtext[r].raw) = "short"
       THEN /\ answer' = [answer EXCEPT ![r] = AskSpecificMsg]
            /\ path' = [path EXCEPT ![r] = "short"]
            /\ qpc' = [qpc EXCEPT ![r] = "return"]
       ELSE /\ qpc' = [qpc EXCEPT ![r] = "retrieve"]
            /\ UNCHANGED <<answer, path>>
    /\ UNCHANGED <<corpus, buildVars, collectVars, clients, llm, loop, qtext, qRetr, qNodes, qGen, generated>>

\* retriever = self._index.as_retriever(similarity_top_k=1)  (line 214)
ReadIndex(r) ==
    /\ qpc[r] = "retrieve"
    /\ qRetr' = [qRetr EXCEPT ![r] = index.gen]
    /\ qpc' = [qpc EXCEPT ![r] = "retrieving"]
    /\ UNCHANGED <<corpus, buildVars, collectVars, clients, llm, loop, qtext, qNodes, qGen, generated, path, answer>>

(* node.score in hundredths: <<>> for a node without score (None), <<n>>   *)
(* for the score n / 100.                                                  *)
\* the threshold 0.15 of line 220
ScoreThreshold == 15
AllScores == {<<>>, <<14>>, <<15>>}
FewScores == {<<14>>, <<15>>}
\* the scores a retrieved node may carry
Scores == IF llm = "all" THEN AllScores ELSE FewScores
\* float(node.score or 0)  (line 220)
ScoreValue(sc) == IF sc = <<>> THEN 0 ELSE sc[1]

\* a gate for which a score equal to the threshold is no context either
NoContextInclusive(nodes) ==
    \/ nodes = <<>>
    \/ \A i \in 1..Len(nodes) : ScoreValue(nodes[i]) <= ScoreThreshold

\* no_context  (lines 218-221)
NoContext(nodes) ==
    \/ nodes = <<>>
    \/ \A i \in 1..Len(nodes) : ScoreValue(nodes[i]) < ScoreThreshold

\* what retriever.retrieve(q) can give for the index object g: it raises
\* when the embedding service or the store fails, or returns the nodes found
\* (similarity_top_k=1: one at most). While the collection of g is whole on
\* disk an empty one gives no node and any other gives one; once a build
\* has removed or is rewriting the directory the index object reads, every
\* outcome is possible
RetrievalOutcomes(g) ==
    LET raises == {[raised |-> TRUE, nodes |-> <<>>]}
        nothing == {[raised |-> FALSE, nodes |-> <<>>]}
        one == {[raised |-> FALSE, nodes |-> <<sc>>] : sc \in Scores}
    IN IF GenIntact(g)
       THEN IF persistDir.chunks = {} THEN raises \cup nothing ELSE raises \cup one
       ELSE raises \cup nothing \cup one

\* a gate that sends every query without context to the fallback model
RetrievedUngated(r) ==
    /\ qpc[r] = "retrieving"
    /\ \E out \in RetrievalOutcomes(qRetr[r]) :
          IF out.raised
          THEN /\ answer' = [answer EXCEPT ![r] = UnexpectedErrorMsg]
               /\ path' = [path EXCEPT ![r] = "error"]
               /\ qpc' = [qpc EXCEPT ![r] = "return"]
               /\ UNCHANGED qNodes
          ELSE /\ qNodes' = [qNodes EXCEPT ![r] = [called |-> TRUE, nodes |-> out.nodes]]
               /\ qpc' = [qpc EXCEPT ![r] = IF NoContext(out.nodes) THEN "fallback" ELSE "engine"]
               /\ UNCHANGED <<answer, path>>
    /\ UNCHANGED <<corpus, buildVars, collectVars, clients, llm, loop, qtext, qRetr, qGen, generated>>

\* retrieved_nodes = retriever.retrieve(q) and the gate of step 5
\* (lines 215-226, 308-309)
Retrieved(r) ==
    /\ qpc[r] = "retrieving"
    /\ \E out \in RetrievalOutcomes(qRetr[r]) :
          IF out.raised
          THEN /\ answer' = [answer EXCEPT ![r] = UnexpectedErrorMsg]
               /\ path' = [path EXCEPT ![r] = "error"]
               /\ qpc' = [qpc EXCEPT ![r] = "return"]
               /\ UNCHANGED qNodes
          ELSE /\ qNodes' = [qNodes EXCEPT ![r] = [called |-> TRUE, nodes |-> out.nodes]]
               /\ IF NoContext(out.nodes) /\ IsOrderRelated(qtext[r])
                  THEN /\ answer' = [answer EXCEPT ![r] = NoDataMsg]
                       /\ path' = [path EXCEPT ![r] = "nodata"]
                       /\ qpc' = [qpc EXCEPT ![r] = "return"]
                  ELSE /\ qpc' = [qpc EXCEPT ![r] = IF NoContext(out.nodes) THEN "fallback" ELSE "engine"]
                       /\ UNCHANGED <<answer, path>>
    /\ UNCHANGED <<corpus, buildVars, collectVars, clients, llm, loop, qtext, qRetr, qGen, generated>>

\* response = fallback_llm.complete(...); return response.text.strip()
\* (lines 229-244)
FallbackDone(r) ==
    /\ qpc[r] = "fallback"
    /\ \E c \in Candidates :
          /\ generated' = [generated EXCEPT ![r] = c]
          /\ answer' = [answer EXCEPT ![r] = Strip(c)]
    /\ path' = [path EXCEPT ![r] = "fallback"]
    /\ qpc' = [qpc EXCEPT ![r] = "return"]
    /\ UNCHANGED <<corpus, buildVars, collectVars, clients, llm, loop, qtext, qRetr, qNodes, qGen>>

\* qe = self._index.as_query_engine(...)  (lines 269-274)
MakeEngine(r) ==
    /\ qpc[r] = "engine"
    /\ qGen' = [qGen EXCEPT ![r] = index.gen]
    /\ qpc' = [qpc EXCEPT ![r] = "generating"]
    /\ UNCHANGED <<corpus, buildVars, collectVars, clients, llm, loop, qtext, qRetr, qNodes, generated, path, answer>>

\* resp = qe.query(q), the post-processing and return text  (lines 276-299);
\* an exception of the post-processing is caught at line 308
EngineDone(r) ==
    /\ qpc[r] = "generating"
    /\ \E c \in Candidates :
          /\ generated' = [generated EXCEPT ![r] = c]
          /\ IF PostProcessRaises(ResponseText(c))
             THEN /\ answer' = [answer EXCEPT ![r] = UnexpectedErrorMsg]
                  /\ path' = [path EXCEPT ![r] = "error"]
             ELSE /\ answer' = [answer EXCEPT ![r] = PostProcess(ResponseText(c), qtext[r])]
                  /\ path' = [path EXCEPT ![r] = "grounded"]
    /\ qpc' = [qpc EXCEPT ![r] = "return"]
    /\ UNCHANGED <<corpus, buildVars, collectVars, clients, llm, loop, qtext, qRetr, qNodes, qGen>>

\* the generation service fails during complete() or qe.query(): a
\* ResponseError is answered by lines 301-306, anything else by lines 308-309
GenerationFails(r) ==
    /\ qpc[r] \in {"fallback", "generating"}
    /\ \E msg \in {OllamaErrorMsg, UnexpectedErrorMsg} :
          answer' = [answer EXCEPT ![r] = msg]
    /\ path' = [path EXCEPT ![r] = "error"]
    /\ qpc' = [qpc EXCEPT ![r] = "return"]
    /\ UNCHANGED <<corpus, buildVars, collectVars, clients, llm, loop, qtext, qRetr, qNodes, qGen, generated>>

\* rag_query returns the QueryResponse and the coroutine ends: the loop is
\* free again, the client has its response and the slot serves the next
\* request  (lines 552-555)
Respond(r) ==
    /\ qpc[r] = "return"
    /\ loop' = "idle"
    /\ qpc' = [qpc EXCEPT ![r] = "idle"]
    /\ qtext' = [qtext EXCEPT ![r] = HealthCheck]
    /\ qRetr' = [qRetr EXCEPT ![r] = 0]
    /\ qNodes' = [qNodes EXCEPT ![r] = NotRetrieved]
    /\ qGen' = [qGen EXCEPT ![r] = 0]
    /\ generated' = [generated EXCEPT ![r] = NoText]
    /\ path' = [path EXCEPT ![r] = "none"]
    /\ answer' = [answer EXCEPT ![r] = NoText]
    /\ UNCHANGED <<corpus, buildVars, collectVars, clients, llm>>

\* the HTTP status of the response rag_query returns  (lines 550, 555, 557)
StatusOf(r) ==
    CASE path[r] = "http400" -> 400
      [] path[r] = "http500" -> 500
      [] OTHER -> 200

RequestStep(r) ==
    \/ Arrive(r)
    \/ Dispatch(r)
    \/ Classify(r)
    \/ ReadIndex(r)
    \/ Retrieved(r)
    \/ FallbackDone(r)
    \/ MakeEngine(r)
    \/ EngineDone(r)
    \/ GenerationFails(r)
    \/ Respond(r)

BuildStep(t) ==
    \/ AcquireLock(t)
    \/ Rmtree(t)
    \/ Collect(t)
    \/ OpenStore(t)
    \/ AddChunk(t)
    \/ IndexDone(t)
    \/ Persist(t)
    \/ Publish(t)
    \/ RecordSnapshot(t)
    \/ BuildFail(t)

Next ==
    \/ CorpusChange
    \/ \E t \in Threads : BuildStep(t)
    \/ StartMonitor
    \/ Tick
    \/ TickFail
    \/ \E r \in Reqs : RequestStep(r)

Spec == Init /\ [][Next]_vars

(* ---------------- query() alone, on a published index ------------------ *)
\* the service after a startup build of corpus c, the monitor asleep
Serving(c) ==
    /\ corpus = c
    /\ pc = [t \in Threads |-> IF t = "main" THEN "serving" ELSE "sleep"]
    /\ lock = "free"
    /\ pending = 0
    /\ bdocs = [t \in Threads |-> IF t = "main" THEN DocsOf(c) ELSE {}]
    /\ bgen = [t \in Threads |-> IF t = "main" THEN 1 ELSE 0]
    /\ nextGen = 2
    /\ persistDir = [gen |-> 1, chunks |-> NodesOf(DocsOf(c), 1), complete |-> TRUE]
    /\ index = [gen |-> 1, chunks |-> NodesOf(DocsOf(c), 1)]
    /\ last_snapshot = SnapshotOf(c)

InitQuery ==
    /\ \E c \in [Files -> 0..MaxMtime] : Serving(c)
    /\ clients = "all"
    /\ llm = "all"
    /\ InitRequests
    /\ NoCollect

NextQuery == RequestStep("r1")

SpecQuery == InitQuery /\ [][NextQuery]_vars

(* --------------- collect_documents alone, file by file ----------------- *)
InitCollect ==
    /\ \E c \in [Files -> 0..MaxMtime] : Serving(c)
    /\ clients = "few"
    /\ llm = "few"
    /\ InitRequests
    /\ dataDir \in [DirFiles -> Conditions]
    /\ cpc = "idle"
    /\ cleft = {}
    /\ cdocs = {}

NextCollect == CollectStart \/ CollectFile \/ CollectReturn

SpecCollect == InitCollect /\ [][NextCollect]_vars

(* ============================== claims ================================== *)

\* C1: a query reads the index handle once and uses that one generation for
\* the whole request: the index object its query engine is made from (line
\* 269) is the one its retriever was made from (line 214).
C1_OneGenerationPerQuery ==
    \A r \in Reqs : qGen[r] # 0 => qGen[r] = qRetr[r]

\* C2: a corpus change that happens while a build runs is not lost: when a
\* build completes whose documents are no longer those of the corpus, the
\* snapshot it records still differs from the corpus, so that the next tick
\* of the monitor starts the follow-up build.
C2_ChangeDuringBuildRebuilt ==
    [][\A t \in Threads :
          (pc[t] = "snap" /\ pc'[t] = AfterBuild(t) /\ bdocs[t] # DocsOf(corpus))
              => last_snapshot' # SnapshotOf(corpus')]_vars

\* C3: after a rebuild has failed, self._index still is a generation
\* published earlier and the vector data of that generation is whole on disk.
C3_FailedRebuildKeepsPrevious ==
    \A t \in Threads :
        (pc[t] = "build_failed" /\ index # NoIndex)
            => /\ GenIntact(index.gen)
               /\ persistDir.chunks = index.chunks

\* C4: at most one thread executes _build_index, and at most one rebuild is
\* requested and waiting to start, whatever the corpus does during a build.
C4_OneBuildOnePending ==
    /\ Cardinality(Builders) <= 1
    /\ Cardinality({t \in Threads : pc[t] = "lock"}) <= 1
    /\ pending <= 1

\* C4, its case: the monitor is inside a rebuild and the corpus no longer is
\* what that rebuild collected.
C4_Witness ==
    /\ pc["monitor"] \in BuildPcs
    /\ bdocs["monitor"] # DocsOf(corpus)
    /\ pc["monitor"] = "publish"

\* C5: from the moment the service accepts requests, self._index is a
\* generation, and that generation is fully built and untouched: its vector
\* data on disk is whole and holds exactly its chunks.
C5_PublishedGenerationWhole ==
    pc["main"] = "serving"
        => /\ index # NoIndex
           /\ GenIntact(index.gen)
           /\ persistDir.chunks = index.chunks

\* C6: a query whose retrieval is under way while a build runs can go on
\* without the build ending first, and the vector data of the generation it
\* read stays whole on disk.
C6_QueryServedDuringBuild ==
    \A r \in Reqs :
        (qpc[r] = "retrieving" /\ Builders # {})
            => /\ ENABLED Retrieved(r)
               /\ GenIntact(qRetr[r])

\* C7: the monitor thread never ends: neither a failing snapshot nor a
\* failing rebuild takes it out of its loop.
C7_WatcherNeverStops ==
    pc["monitor"] \notin {"tick_failed", "build_failed"}

\* C8: while one request waits for the generation service, any other request
\* that has arrived can be taken up.
C8_StalledCallDelaysOnlyItsRequest ==
    \A r \in Reqs, o \in Reqs :
        (r # o /\ qpc[r] \in {"fallback", "generating"} /\ qpc[o] = "arrived")
            => ENABLED Dispatch(o)

\* C9: whatever text the generation service produced, on the grounded and on
\* the fallback path, query() returns it post-processed.
C9_GeneratedTextSanitized ==
    \A r \in Reqs :
        (qpc[r] = "return" /\ generated[r] # NoText /\ path[r] # "error")
            => answer[r] = PostProcess(IF path[r] = "fallback"
                                       THEN Strip(generated[r])
                                       ELSE ResponseText(generated[r]), qtext[r])

\* C10: the answer to a request for which the generation service produced a
\* text has no line made of digits only and no line made of a date only.
C10_NoDigitOrDateLines ==
    \A r \in Reqs :
        (qpc[r] = "return" /\ generated[r] # NoText)
            => \A i \in 1..Len(LinesOf(answer[r])) :
                   LinesOf(answer[r])[i] \notin {<<"NUM">>, <<"DATE">>}

\* C11: when the post-processing of a generated text fails, query() returns
\* either the text as it was before the failing stage or the fixed apology
\* of line 416, and nothing made from the failure.
C11_SanitizerFailureContained ==
    \A r \in Reqs :
        (qpc[r] = "return" /\ generated[r] # NoText /\ path[r] = "error")
            => answer[r] \in {ResponseText(generated[r]), TplSorry}

\* C12: whatever text the generation service produced, the empty text
\* included, the text query() returns is not empty.
C12_AnswerNonEmpty ==
    \A r \in Reqs :
        (qpc[r] = "return" /\ generated[r] # NoText) => answer[r] # <<>>

\* C13: a post-processed answer has at most 3 sentences (counted as the
\* source counts them, by its split on ". ") and at most 250 characters.
C13_ThreeSentences250Chars ==
    \A r \in Reqs :
        (qpc[r] = "return" /\ path[r] = "grounded")
            => /\ Len(SplitOn(answer[r], <<".", "SP">>)) <= 3
               /\ TextLen(answer[r]) <= 250

\* C14: a post-processed answer begins with one of the openers the cleanup
\* functions know or prepend.
C14_BeginsWithOpener ==
    \A r \in Reqs :
        (qpc[r] = "return" /\ path[r] = "grounded")
            => /\ answer[r] # <<>>
               /\ Head(answer[r]) \in ExtractOpeners \cup CleanOpeners \cup {"FOR_ALLERGY"}

\* C15: when the generated text has at least 3 date lines and at least 6
\* bullet separators, the post-processed answer has no date line and at most
\* 3 sentences.
C15_DenseInputCondensed ==
    \A r \in Reqs :
        (/\ qpc[r] = "return"
         /\ path[r] = "grounded"
         /\ Cardinality({i \in 1..Len(LinesOf(generated[r])) : IsDateLine(LinesOf(generated[r])[i])}) >= 3
         /\ CountSeq(generated[r], <<"SP", "BULLET", "SP">>) >= 6)
            => /\ \A i \in 1..Len(LinesOf(answer[r])) : ~IsDateLine(LinesOf(answer[r])[i])
               /\ Len(SplitOn(answer[r], <<".", "SP">>)) <= 3

\* C16: when retrieval for a query with an order keyword gives no node or
\* only nodes scored below the threshold, query() returns the fixed no-data
\* message at once: no generation call is made for the request.
C16_NoDataGate ==
    [][\A r \in Reqs :
          (/\ qpc[r] = "retrieving"
           /\ qNodes'[r].called
           /\ qNodes'[r].nodes = <<>> \/ ScoreValue(qNodes'[r].nodes[1]) < ScoreThreshold
           /\ IsOrderRelated(qtext[r]))
              => /\ qpc'[r] = "return"
                 /\ answer'[r] = NoDataMsg
                 /\ generated'[r] = NoText
                 /\ qGen'[r] = 0]_vars

\* C16, its case: a query with an order keyword was answered from an empty
\* index, retrieval having given no node.
C16_Witness ==
    \E r \in Reqs :
        /\ qpc[r] = "return"
        /\ path[r] = "nodata"
        /\ qNodes[r] = [called |-> TRUE, nodes |-> <<>>]
        /\ IsOrderRelated(qtext[r])
        /\ index.chunks = {}

\* C17: a query whose trimmed, lower-cased text without ! and ? is in the
\* greetings set gets the canned greeting, and neither the index is read nor
\* retrieval nor generation is called for it.
C17_GreetingShortCircuits ==
    \A r \in Reqs :
        (/\ QueryText(qtext[r]) = "text"
         /\ RemoveMarks(Lower(Strip(qtext[r].raw))) \in Greetings
         /\ qpc[r] \notin {"idle", "arrived", "classify"})
            => /\ qpc[r] = "return"
               /\ answer[r] = GreetingMsg
               /\ qRetr[r] = 0
               /\ qNodes[r] = NotRetrieved
               /\ qGen[r] = 0
               /\ generated[r] = NoText

\* C17, its case: the query "Hello!" has been answered.
C17_Witness ==
    \E r \in Reqs :
        /\ qpc[r] = "return"
        /\ qtext[r].raw = <<"Hello", "!">>
        /\ path[r] = "greeting"

\* C18: the text query() returns after a failure never holds the message of
\* the exception.
C18_NoExceptionText ==
    \A r \in Reqs :
        (qpc[r] = "return" /\ path[r] = "error") => CountTok(answer[r], "EXC_MESSAGE") = 0

\* C19: rag_query answers 400 when the request carries no query, 200 when
\* query() turned a failure into a text, and never 500 for a body that is
\* malformed or no JSON object.
C19_StatusCodes ==
    \A r \in Reqs :
        (qpc[r] = "return" /\ qtext[r].route = "rag_query")
            => /\ qtext[r].body = "nofield" => StatusOf(r) = 400
               /\ path[r] = "error" => StatusOf(r) = 200
               /\ qtext[r].body \in {"array", "malformed"} => StatusOf(r) # 500

\* C20: a build that has embedded and stored at least one chunk is not
\* aborted by a failure on a later chunk, and a build of which no chunk
\* survives publishes nothing.
C20_BuildSkipsFailedChunks ==
    [][\A t \in Threads :
          /\ (pc[t] = "index" /\ persistDir.chunks # {}) => pc'[t] # "build_failed"
          /\ (pc[t] = "publish" /\ persistDir.chunks = {}) => index' = index]_vars

\* C21: a file whose extraction fails never makes collect_documents fail:
\* the call returns, and every file in good condition has its document in
\* the list the build goes on with.
C21_FailedFileSkipped ==
    /\ cpc # "raised"
    /\ cpc = "returned"
          => \A f \in DirFiles :
                 (Suffix(f) \in DATA_EXTS /\ dataDir[f] = "good") => \E d \in cdocs : d[1] = f

C23_RebuildOnlyOnChange ==
    [][/\ (pc["monitor"] = "sleep" /\ pc'["monitor"] = "lock")
              => SnapshotOf(corpus) # last_snapshot
       /\ (index' # index /\ index # NoIndex) => pc["monitor"] = "publish"
       /\ (\E t \in Threads : pc[t] \in BuildPcs /\ pc'[t] # pc[t]) => corpus' = corpus]_vars

\* C23, its case: the monitor has seen changed files and called for a build.
C23_Witness ==
    /\ pc["monitor"] = "lock"
    /\ SnapshotOf(corpus) # last_snapshot
    /\ index # NoIndex

\* C27: once a generation is published, the persist directory always holds
\* the complete vector data of one generation and of that one only.
C27_PersistDirAlwaysWhole ==
    index # NoIndex
        => /\ persistDir # Absent
           /\ persistDir.complete
           /\ \A n \in persistDir.chunks : n[3] = persistDir.gen

\* C29: whenever no build runs (and none has failed), the recorded snapshot
\* is that of the files the published generation was built from.
C29_SnapshotMatchesPublished ==
    (Builders = {} /\ index # NoIndex /\ \A t \in Threads : pc[t] # "build_failed")
        => Contents(index.chunks) = ChunksOf(last_snapshot)

C25_RetrievalFailureIsNoContext ==
    [][\A r \in Reqs :
          (qpc[r] = "retrieving" /\ qpc'[r] # "retrieving" /\ ~qNodes'[r].called)
              => IF IsOrderRelated(qtext[r])
                 THEN qpc'[r] = "return" /\ answer'[r] = NoDataMsg
                 ELSE qpc'[r] = "fallback"]_vars

\* C26: label cleanup, hard caps and tone normalisation (lines 366-379, the
\* only place where the source has them) are applied to every generated
\* answer, after the recovery of line 286 when it ran and to the text as
\* generated when it did not.
C26_NormalisationAlwaysApplied ==
    \A r \in Reqs :
        (qpc[r] = "return" /\ path[r] = "grounded")
            => LET t == ResponseText(generated[r])
                   base == IF CountRaw(t, TRUE) > 2 THEN ExtractMeaningful(t, qtext[r]) ELSE t
               IN answer[r] = Strip(PrefixFriendly(FirstThreeSentences(CollapseNewlines(
                                  RemoveSections(RemoveReadCsv(RemoveTitle(RemoveItemLabel(base))))))))

\* C28: the greeting test comes before the length test: a query whose
\* trimmed text has fewer than 3 characters gets the canned greeting when it
\* is a greeting ("hi") and the ask-more-specifically prompt when it is not,
\* and in both cases neither retrieval nor generation is called.
C28_GreetingBeforeLength ==
    \A r \in Reqs :
        (/\ QueryText(qtext[r]) = "text"
         /\ qtext[r].raw # <<>>
         /\ TextLen(Strip(qtext[r].raw)) < 3
         /\ qpc[r] \notin {"idle", "arrived", "classify"})
            => /\ qpc[r] = "return"
               /\ answer[r] = IF RemoveMarks(Lower(Strip(qtext[r].raw))) \in Greetings
                               THEN GreetingMsg ELSE AskSpecificMsg
               /\ qRetr[r] = 0
               /\ qNodes[r] = NotRetrieved
               /\ qGen[r] = 0
               /\ generated[r] = NoText

\* C28, its case: the two-letter greeting " hi" has been answered by the
\* greeting.
C28_Witness ==
    \E r \in Reqs :
        /\ qpc[r] = "return"
        /\ qtext[r].raw = <<"SP", "hi">>
        /\ answer[r] = GreetingMsg

\* C30: _extract_meaningful_response applied to its own output, for the
\* same query, returns that output unchanged.
C30_ExtractIdempotent ==
    \A r \in Reqs :
        (/\ qpc[r] = "return"
         /\ path[r] = "grounded"
         /\ CountRaw(ResponseText(generated[r]), TRUE) > 2)
            => ExtractMeaningful(answer[r], qtext[r]) = answer[r]
====
